---- MODULE Spec2Model ----
(***************************************************************************)
(* ClientKeyExchange handling of s2n (tls/s2n_client_key_exchange.c):     *)
(* the RSA and DHE receive (server) and send (client) routines and their  *)
(* two dispatchers, modelled as one atomic action per entry point.  The   *)
(* collaborators the file calls (stuffer, RSA, DH, PRF, random generator, *)
(* blob helpers) live outside the file and are modelled from their        *)
(* interface; every collaborator that returns a status may fail.          *)
(***************************************************************************)
EXTENDS Integers, Naturals, Sequences, FiniteSets, TLC

\* ------------------------------------------------------------------------
\* Program constants
\* ------------------------------------------------------------------------
S2N_SSLv3 == 30
\* the later protocol versions, TLS 1.0 and TLS 1.2
S2N_TLS10 == S2N_SSLv3 + 1
S2N_TLS12 == S2N_SSLv3 + 3
S2N_TLS_SECRET_LEN == 48
S2N_TLS_PROTOCOL_VERSION_LEN == 2
UINT16_MAX == 65535

S2N_RSA == "S2N_RSA"
S2N_DHE == "S2N_DHE"
S2N_OTHER_ALG == "S2N_OTHER_ALG"

AWAITING_CLIENT_KEY_EXCHANGE == "CLIENT_KEY"
CLIENT_CHANGE_CIPHER_SPEC == "CLIENT_CHANGE_CIPHER_SPEC"

S2N_ERR_OK == "S2N_ERR_OK"
S2N_ERR_BAD_MESSAGE == "S2N_ERR_BAD_MESSAGE"
S2N_ERR_SIZE_MISMATCH == "S2N_ERR_SIZE_MISMATCH"
S2N_ERR_NULL == "S2N_ERR_NULL"
S2N_ERR_INVALID_KEY_EXCHANGE_ALGORITHM == "S2N_ERR_INVALID_KEY_EXCHANGE_ALGORITHM"

\* ------------------------------------------------------------------------
\* Bounds of the model
\* ------------------------------------------------------------------------
\* number of distinct outputs of the random generator
MaxSeed == 2
\* number of bytes an injected message may carry after the ciphertext
MaxTrailing == 1

\* ------------------------------------------------------------------------
\* Byte strings
\* ------------------------------------------------------------------------
Zeros(n) == [i \in 1..n |-> 0]

IsAllZero(s) == \A i \in 1..Len(s) : s[i] = 0

Drop(s, n) == SubSeq(s, n + 1, Len(s))

Take(s, n) == SubSeq(s, 1, n)

\* ------------------------------------------------------------------------
\* Stuffer: data written so far and a read cursor
\* ------------------------------------------------------------------------
Stuffer(bytes) == [data |-> bytes, rd |-> 0]

s2n_stuffer_data_available(st) == Len(st.data) - st.rd

s2n_stuffer_read_uint16(st) ==
    IF s2n_stuffer_data_available(st) < 2
    THEN [ret |-> -1, value |-> 0, stuffer |-> st]
    ELSE [ret |-> 0,
          value |-> st.data[st.rd + 1] * 256 + st.data[st.rd + 2],
          stuffer |-> [st EXCEPT !.rd = @ + 2]]

\* NULL (ok = FALSE) when fewer than n bytes remain
s2n_stuffer_raw_read(st, n) ==
    IF s2n_stuffer_data_available(st) < n
    THEN [ok |-> FALSE, bytes |-> <<>>, stuffer |-> st]
    ELSE [ok |-> TRUE,
          bytes |-> SubSeq(st.data, st.rd + 1, st.rd + n),
          stuffer |-> [st EXCEPT !.rd = @ + n]]

Uint16BE(n) == << (n \div 256) % 256, n % 256 >>

s2n_stuffer_write_uint16(st, n) == [st EXCEPT !.data = @ \o Uint16BE(n)]

s2n_stuffer_write_bytes(st, bytes) == [st EXCEPT !.data = @ \o bytes]

\* ------------------------------------------------------------------------
\* Collaborators outside the file, modelled from their interface.
\* env.fail is the set of status-returning collaborators that fail when
\* called; env.seed selects the output of the random generator; env.scribble
\* tells whether a failing decrypt leaves bytes in the output buffer.
\* ------------------------------------------------------------------------
RandomBytes(seed, n) == [i \in 1..n |-> (seed * 37 + i * 11) % 256]

\* s2n_get_random_data(buf + off, n): 0 and n fresh bytes, or -1 and nothing
s2n_get_random_data(buf, off, n, env) ==
    IF "s2n_get_random_data" \in env.fail
    THEN [ret |-> -1, buf |-> buf]
    ELSE [ret |-> 0,
          buf |-> [i \in 1..Len(buf) |->
                     IF i > off /\ i <= off + n
                     THEN RandomBytes(env.seed, n)[i - off] ELSE buf[i]]]

\* PKCS#1 v1.5 type 2 block of an RSA modulus of `size` bytes
RsaPad(msg, size) ==
    << 0, 2 >> \o [i \in 1..(size - Len(msg) - 3) |-> 255] \o << 0 >> \o msg

RsaMask(id, i) == (7 * id + i) % 256

\* encrypt(public_key, plaintext) -> ciphertext of the modulus size
RsaCipher(id, size, msg) ==
    LET block == RsaPad(msg, size)
    IN  [i \in 1..size |-> (block[i] + RsaMask(id, i)) % 256]

s2n_rsa_public_encrypted_size(key) == IF key.live THEN key.size ELSE -1

s2n_rsa_encrypt(key, msg, outsize, env) ==
    IF \/ "s2n_rsa_encrypt" \in env.fail
       \/ ~key.live
       \/ outsize # key.size
       \/ key.size < Len(msg) + 11
    THEN [ret |-> -1, out |-> Zeros(IF outsize > 0 THEN outsize ELSE 0)]
    ELSE [ret |-> 0, out |-> RsaCipher(key.id, key.size, msg)]

\* index of the zero byte that ends the padding, 0 when there is none
RECURSIVE RsaSeparator(_, _)
RsaSeparator(block, i) ==
    IF i > Len(block) THEN 0
    ELSE IF block[i] = 0 THEN i
    ELSE RsaSeparator(block, i + 1)

\* decrypt(private_key, ciphertext) -> (plaintext, success_flag); succeeds
\* only when the blob has the modulus size, unpads under this key and holds
\* exactly outsize bytes
s2n_rsa_decrypt(key, blob, out, env) ==
    LET n == Len(blob)
        block == [i \in 1..n |-> (blob[i] - RsaMask(key.id, i)) % 256]
        sep == IF n >= 3 THEN RsaSeparator(block, 3) ELSE 0
        good == /\ n = key.size
                /\ block[1] = 0
                /\ block[2] = 2
                /\ sep >= 11
                /\ n - sep = Len(out)
    IN  IF good
        THEN [ret |-> 0, out |-> SubSeq(block, sep + 1, n)]
        ELSE [ret |-> -1,
              out |-> IF env.scribble
                      THEN RandomBytes(env.seed + 5, Len(out)) ELSE out]

s2n_rsa_public_key_free(key, env) ==
    IF "s2n_rsa_public_key_free" \in env.fail
    THEN [ret |-> -1, key |-> key]
    ELSE [ret |-> 0, key |-> [key EXCEPT !.live = FALSE, !.frees = @ + 1]]

s2n_constant_time_equals(a, b, n) == \A i \in 1..n : a[i] = b[i]

RECURSIVE WeightedSum(_, _)
WeightedSum(s, w) ==
    IF s = << >> THEN 0
    ELSE (w * Head(s) + WeightedSum(Tail(s), w + 1)) % 256

\* derive_master_secret(session, secret_blob): a digest of the secret
MasterSecretOf(secret) ==
    << WeightedSum(secret, 1), (WeightedSum(secret, 3) + Len(secret)) % 256 >>

s2n_prf_master_secret(conn, secret, env) ==
    IF "s2n_prf_master_secret" \in env.fail
    THEN [ret |-> -1, conn |-> conn]
    ELSE [ret |-> 0, conn |-> [conn EXCEPT !.master_secret = MasterSecretOf(secret)]]

s2n_blob_zero(bytes, env) ==
    IF "s2n_blob_zero" \in env.fail
    THEN [ret |-> -1, bytes |-> bytes]
    ELSE [ret |-> 0, bytes |-> Zeros(Len(bytes))]

\* ---- Diffie-Hellman
RECURSIVE ModExp(_, _, _)
ModExp(b, e, m) == IF e = 0 THEN 1 % m ELSE (b * ModExp(b, e - 1, m)) % m

RECURSIVE IntToBytes(_)
IntToBytes(n) == IF n < 256 THEN << n >> ELSE IntToBytes(n \div 256) \o << n % 256 >>

\* big-endian value of a byte string; values past 16 bits, all larger than
\* the modulus, are kept as UINT16_MAX + 1
BytesToInt(s) ==
    LET n == Len(s)
        nz == { i \in 1..n : s[i] # 0 }
        first == IF nz = {} THEN n + 1 ELSE CHOOSE i \in nz : \A j \in nz : i <= j
        sig == n - first + 1
    IN  IF sig = 0 THEN 0
        ELSE IF sig = 1 THEN s[n]
        ELSE IF sig = 2 THEN s[n - 1] * 256 + s[n]
        ELSE UINT16_MAX + 1

\* the value a reference DH routine computes from (p, private, peer public)
DhShared(p, priv, peer) == IntToBytes(ModExp(peer, priv, p))

DhValidPublic(p, y) == 1 < y /\ y < p - 1

\* compute_shared_secret_as_server(params, peer_public) -> shared_secret
s2n_dh_compute_shared_secret_as_server(params, Yc, env) ==
    IF \/ "s2n_dh_compute_shared_secret" \in env.fail
       \/ ~params.live
       \/ ~DhValidPublic(params.p, BytesToInt(Yc))
    THEN [ret |-> -1, shared_key |-> << >>]
    ELSE [ret |-> 0, shared_key |-> DhShared(params.p, params.priv, BytesToInt(Yc))]

\* compute_shared_secret_as_client(params, writer) -> shared_secret; also
\* writes the length-prefixed public value of a fresh private exponent
s2n_dh_compute_shared_secret_as_client(params, out, env) ==
    LET x == env.seed + 2
        Yc == IntToBytes(ModExp(params.g, x, params.p))
    IN  IF \/ "s2n_dh_compute_shared_secret" \in env.fail
           \/ ~params.live
        THEN [ret |-> -1, shared_key |-> << >>, out |-> out]
        ELSE [ret |-> 0,
              shared_key |-> DhShared(params.p, x, params.pub),
              out |-> s2n_stuffer_write_bytes(
                          s2n_stuffer_write_uint16(out, Len(Yc)), Yc)]

s2n_dh_params_free(params, env) ==
    IF "s2n_dh_params_free" \in env.fail
    THEN [ret |-> -1, params |-> params]
    ELSE [ret |-> 0, params |-> [params EXCEPT !.live = FALSE, !.frees = @ + 1]]

s2n_free(env) == IF "s2n_free" \in env.fail THEN -1 ELSE 0

\* ------------------------------------------------------------------------
\* One call of a routine: the connection, the return status and s2n_errno,
\* the locals of the routine, and the order of the collaborator calls
\* ------------------------------------------------------------------------
Enter(conn) ==
    [conn |-> conn, ret |-> 0, err |-> S2N_ERR_OK, done |-> FALSE,
     calls |-> << >>, length |-> 0, encrypted_size |-> 0,
     client_protocol_version |-> << 0, 0 >>,
     encrypted |-> << >>, prf_arg |-> << >>,
     shared_key |-> << >>, shared_key_live |-> FALSE, populated |-> FALSE,
     path |-> "none"]

\* entry of one of the four static routines
Entered(conn, routine) == [Enter(conn) EXCEPT !.path = routine]

\* S2N_ERROR(x): set s2n_errno and return -1
S2N_ERROR(c, x) == [c EXCEPT !.ret = -1, !.err = x, !.done = TRUE]

\* GUARD(f(...)): return -1 when f failed, with the errno f set
GUARD(c, callee) == [c EXCEPT !.ret = -1, !.err = callee, !.done = TRUE]

Called(c, callee) == [c EXCEPT !.calls = Append(@, callee)]

\* wire format of a protocol version: { version / 10, version % 10 }
WireVersion(version) == << (version \div 10) % 256, (version % 10) % 256 >>

\* ------------------------------------------------------------------------
\* s2n_rsa_client_key_recv
\* ------------------------------------------------------------------------
\* the prefix read at every version
RsaRecvReadsPrefix_Always(version) == version >= 0

\* the receive side reads an explicit length prefix
RsaRecvReadsPrefix(version) == version # S2N_SSLv3

RsaRecvLength(c) ==
    IF c.done THEN c
    ELSE IF ~RsaRecvReadsPrefix(c.conn.actual_protocol_version)
    THEN [c EXCEPT !.length = s2n_stuffer_data_available(c.conn.io) % (UINT16_MAX + 1)]
    ELSE LET r == s2n_stuffer_read_uint16(c.conn.io)
         IN  IF r.ret # 0
             THEN GUARD(Called(c, "s2n_stuffer_read_uint16"), "s2n_stuffer_read_uint16")
             ELSE [Called(c, "s2n_stuffer_read_uint16")
                     EXCEPT !.length = r.value, !.conn.io = r.stuffer]

\* the length compared with the size of the whole body, prefix included
RsaRecvLengthTooBig_WholeBody(length, available) == length > available + 2

\* a length equal to the bytes available refused as well
RsaRecvLengthTooBig_OffByOne(length, available) == length >= available

RsaRecvLengthTooBig(length, available) == length > available

RsaRecvCheckLength(c) ==
    IF c.done THEN c
    ELSE IF RsaRecvLengthTooBig(c.length, s2n_stuffer_data_available(c.conn.io))
    THEN S2N_ERROR(c, S2N_ERR_BAD_MESSAGE)
    ELSE c

RsaRecvWireVersion(c) ==
    IF c.done THEN c
    ELSE [c EXCEPT !.client_protocol_version =
                       WireVersion(c.conn.client_protocol_version)]

\* encrypted.size is the bytes available before the read, encrypted.data
\* the read position: the blob is every byte that remains in the message
RsaRecvEncryptedBlob(io, length) ==
    SubSeq(io.data, io.rd + 1, io.rd + s2n_stuffer_data_available(io))

\* the decrypt status or-ed into the flag instead of assigned to it
RsaRecvDecrypt_StickyFlag(c, env) ==
    IF c.done THEN c
    ELSE LET blob == RsaRecvEncryptedBlob(c.conn.io, c.length)
             rd == s2n_stuffer_raw_read(c.conn.io, c.length)
             d == s2n_rsa_decrypt(c.conn.private_key, blob,
                                  c.conn.rsa_premaster_secret, env)
         IN  [Called(c, "s2n_rsa_decrypt")
                EXCEPT !.encrypted = blob,
                       !.conn.io = rd.stuffer,
                       !.conn.rsa_premaster_secret = d.out,
                       !.conn.rsa_failed = @ \/ (d.ret # 0),
                       !.populated = (d.ret = 0 \/ env.scribble)]

RsaRecvDecrypt(c, env) ==
    IF c.done THEN c
    ELSE LET blob == RsaRecvEncryptedBlob(c.conn.io, c.length)
             rd == s2n_stuffer_raw_read(c.conn.io, c.length)
             d == s2n_rsa_decrypt(c.conn.private_key, blob,
                                  c.conn.rsa_premaster_secret, env)
         IN  [Called(c, "s2n_rsa_decrypt")
                EXCEPT !.encrypted = blob,
                       !.conn.io = rd.stuffer,
                       !.conn.rsa_premaster_secret = d.out,
                       !.conn.rsa_failed = (d.ret # 0),
                       !.populated = (d.ret = 0 \/ env.scribble)]

\* only the major version byte compared
RsaRecvVersionMismatch_MajorOnly(expected, pms) ==
    ~s2n_constant_time_equals(expected, pms, 1)

RsaRecvVersionMismatch(expected, pms) ==
    ~s2n_constant_time_equals(expected, pms, S2N_TLS_PROTOCOL_VERSION_LEN)

RsaRecvCheckVersion(c) ==
    IF c.done THEN c
    ELSE [c EXCEPT !.conn.rsa_failed =
                       @ \/ RsaRecvVersionMismatch(c.client_protocol_version,
                                                   c.conn.rsa_premaster_secret)]

\* the random substitute left without the advertised version
RsaRecvSubstitute_NoVersion(c, env) ==
    IF c.done \/ ~c.conn.rsa_failed THEN c
    ELSE LET r == s2n_get_random_data(c.conn.rsa_premaster_secret, 0,
                                      S2N_TLS_SECRET_LEN, env)
             c1 == Called(c, "s2n_get_random_data")
         IN  IF r.ret # 0 THEN GUARD(c1, "s2n_get_random_data")
             ELSE [c1 EXCEPT !.populated = TRUE,
                             !.conn.rsa_premaster_secret = r.buf]

RsaRecvSubstitute(c, env) ==
    IF c.done \/ ~c.conn.rsa_failed THEN c
    ELSE LET r == s2n_get_random_data(c.conn.rsa_premaster_secret, 0,
                                      S2N_TLS_SECRET_LEN, env)
             c1 == Called(c, "s2n_get_random_data")
         IN  IF r.ret # 0 THEN GUARD(c1, "s2n_get_random_data")
             ELSE [c1 EXCEPT !.populated = TRUE,
                             !.conn.rsa_premaster_secret =
                                 [r.buf EXCEPT ![1] = c.client_protocol_version[1],
                                               ![2] = c.client_protocol_version[2]]]

RsaRecvMasterSecret(c, env) ==
    IF c.done THEN c
    ELSE LET r == s2n_prf_master_secret(c.conn, c.conn.rsa_premaster_secret, env)
             c1 == [Called(c, "s2n_prf_master_secret")
                      EXCEPT !.prf_arg = c.conn.rsa_premaster_secret]
         IN  IF r.ret # 0 THEN GUARD(c1, "s2n_prf_master_secret")
             ELSE [c1 EXCEPT !.conn = r.conn]

RsaRecvErase(c, env) ==
    IF c.done THEN c
    ELSE LET r == s2n_blob_zero(c.conn.rsa_premaster_secret, env)
             c1 == [Called(c, "s2n_blob_zero")
                      EXCEPT !.conn.rsa_premaster_secret = r.bytes]
         IN  IF r.ret # 0 THEN GUARD(c1, "s2n_blob_zero") ELSE c1

\* the state advanced on the genuine branch only
RsaRecvNextState_GenuineOnly(c) ==
    IF c.done THEN c
    ELSE IF c.conn.rsa_failed THEN [c EXCEPT !.done = TRUE]
    ELSE [c EXCEPT !.conn.next_state = CLIENT_CHANGE_CIPHER_SPEC, !.done = TRUE]

RsaRecvNextState(c) ==
    IF c.done THEN c
    ELSE [c EXCEPT !.conn.next_state = CLIENT_CHANGE_CIPHER_SPEC, !.done = TRUE]

s2n_rsa_client_key_recv(conn, env) ==
    RsaRecvNextState(
     RsaRecvErase(
      RsaRecvMasterSecret(
       RsaRecvSubstitute(
        RsaRecvCheckVersion(
         RsaRecvDecrypt(
          RsaRecvWireVersion(
           RsaRecvCheckLength(
            RsaRecvLength(Entered(conn, "s2n_rsa_client_key_recv")))), env)), env), env), env))

\* ------------------------------------------------------------------------
\* s2n_dhe_client_key_recv
\* ------------------------------------------------------------------------
DheRecvLength(c) ==
    IF c.done THEN c
    ELSE LET r == s2n_stuffer_read_uint16(c.conn.io)
             c1 == Called(c, "s2n_stuffer_read_uint16")
         IN  IF r.ret # 0 THEN GUARD(c1, "s2n_stuffer_read_uint16")
             ELSE [c1 EXCEPT !.length = r.value, !.conn.io = r.stuffer]

\* a short read taken for what is there instead of refused
DheRecvReadYc_Partial(c) ==
    IF c.done THEN c
    ELSE [Called(c, "s2n_stuffer_raw_read")
            EXCEPT !.encrypted = Drop(c.conn.io.data, c.conn.io.rd),
                   !.conn.io.rd = Len(c.conn.io.data)]

\* the public value taken to be every byte that remains
DheRecvReadYc_WholeBody(c) ==
    IF c.done THEN c
    ELSE LET r == s2n_stuffer_raw_read(c.conn.io, c.length)
             c1 == Called(c, "s2n_stuffer_raw_read")
         IN  IF ~r.ok THEN S2N_ERROR(c1, S2N_ERR_NULL)
             ELSE [c1 EXCEPT !.encrypted = Drop(c.conn.io.data, c.conn.io.rd),
                             !.conn.io = r.stuffer]

DheRecvReadYc(c) ==
    IF c.done THEN c
    ELSE LET r == s2n_stuffer_raw_read(c.conn.io, c.length)
             c1 == Called(c, "s2n_stuffer_raw_read")
         IN  IF ~r.ok THEN S2N_ERROR(c1, S2N_ERR_NULL)
             ELSE [c1 EXCEPT !.encrypted = r.bytes, !.conn.io = r.stuffer]

DheRecvSharedKey(c, env) ==
    IF c.done THEN c
    ELSE LET r == s2n_dh_compute_shared_secret_as_server(
                      c.conn.server_dh_params, c.encrypted, env)
             c1 == Called(c, "s2n_dh_compute_shared_secret_as_server")
         IN  IF r.ret # 0 THEN GUARD(c1, "s2n_dh_compute_shared_secret_as_server")
             ELSE [c1 EXCEPT !.shared_key = r.shared_key,
                             !.shared_key_live = TRUE,
                             !.populated = TRUE]

DheMasterSecret(c, env) ==
    IF c.done THEN c
    ELSE LET r == s2n_prf_master_secret(c.conn, c.shared_key, env)
             c1 == [Called(c, "s2n_prf_master_secret") EXCEPT !.prf_arg = c.shared_key]
         IN  IF r.ret # 0 THEN GUARD(c1, "s2n_prf_master_secret")
             ELSE [c1 EXCEPT !.conn = r.conn]

DheErase(c, env) ==
    IF c.done THEN c
    ELSE LET z == s2n_blob_zero(c.shared_key, env)
             c1 == [Called(c, "s2n_blob_zero") EXCEPT !.shared_key = z.bytes]
             c2 == Called(c1, "s2n_free")
         IN  IF z.ret # 0 THEN GUARD(c1, "s2n_blob_zero")
             ELSE IF s2n_free(env) # 0 THEN GUARD(c2, "s2n_free")
             ELSE [c2 EXCEPT !.shared_key_live = FALSE]

DheFreeParams(c, env) ==
    IF c.done THEN c
    ELSE LET r == s2n_dh_params_free(c.conn.server_dh_params, env)
             c1 == Called(c, "s2n_dh_params_free")
         IN  IF r.ret # 0 THEN GUARD(c1, "s2n_dh_params_free")
             ELSE [c1 EXCEPT !.conn.server_dh_params = r.params]

\* the state written whether or not an earlier step returned
DheNextState_BeforeChecks(c) ==
    [c EXCEPT !.conn.next_state = CLIENT_CHANGE_CIPHER_SPEC, !.done = TRUE]

DheNextState(c) ==
    IF c.done THEN c
    ELSE [c EXCEPT !.conn.next_state = CLIENT_CHANGE_CIPHER_SPEC, !.done = TRUE]

s2n_dhe_client_key_recv(conn, env) ==
    DheNextState(
     DheFreeParams(
      DheErase(
       DheMasterSecret(
        DheRecvSharedKey(
         DheRecvReadYc(
          DheRecvLength(Entered(conn, "s2n_dhe_client_key_recv"))), env), env), env), env))

\* ------------------------------------------------------------------------
\* s2n_dhe_client_key_send
\* ------------------------------------------------------------------------
DheSendSharedKey(c, env) ==
    IF c.done THEN c
    ELSE LET r == s2n_dh_compute_shared_secret_as_client(
                      c.conn.server_dh_params, c.conn.io, env)
             c1 == Called(c, "s2n_dh_compute_shared_secret_as_client")
         IN  IF r.ret # 0 THEN GUARD(c1, "s2n_dh_compute_shared_secret_as_client")
             ELSE [c1 EXCEPT !.shared_key = r.shared_key,
                             !.shared_key_live = TRUE,
                             !.populated = TRUE,
                             !.conn.io = r.out]

\* the shared key erased before it is handed to the derivation
s2n_dhe_client_key_send_EraseFirst(conn, env) ==
    DheNextState(
     DheFreeParams(
      DheMasterSecret(
       DheErase(
        DheSendSharedKey(Entered(conn, "s2n_dhe_client_key_send"), env), env), env), env))

s2n_dhe_client_key_send(conn, env) ==
    DheNextState(
     DheFreeParams(
      DheErase(
       DheMasterSecret(
        DheSendSharedKey(Entered(conn, "s2n_dhe_client_key_send"), env), env), env), env))

\* ------------------------------------------------------------------------
\* s2n_rsa_client_key_send
\* ------------------------------------------------------------------------
RsaSendBuildSecret(c, env) ==
    IF c.done THEN c
    ELSE LET v == WireVersion(c.conn.client_protocol_version)
             pms == [c.conn.rsa_premaster_secret EXCEPT ![1] = v[1], ![2] = v[2]]
             r == s2n_get_random_data(pms, S2N_TLS_PROTOCOL_VERSION_LEN,
                      S2N_TLS_SECRET_LEN - S2N_TLS_PROTOCOL_VERSION_LEN, env)
             c1 == [Called(c, "s2n_get_random_data")
                      EXCEPT !.client_protocol_version = v,
                             !.populated = (r.ret = 0),
                             !.conn.rsa_premaster_secret = r.buf]
         IN  IF r.ret # 0 THEN GUARD(c1, "s2n_get_random_data") ELSE c1

\* the negative (error) size let through
RsaSendSizeMismatch_NoNegative(encrypted_size) == encrypted_size > UINT16_MAX

RsaSendSizeMismatch(encrypted_size) ==
    encrypted_size < 0 \/ encrypted_size > UINT16_MAX

RsaSendEncryptedSize(c) ==
    IF c.done THEN c
    ELSE LET n == s2n_rsa_public_encrypted_size(c.conn.server_rsa_public_key)
             c1 == [Called(c, "s2n_rsa_public_encrypted_size")
                      EXCEPT !.encrypted_size = n]
         IN  IF RsaSendSizeMismatch(n) THEN S2N_ERROR(c1, S2N_ERR_SIZE_MISMATCH)
             ELSE c1

\* the prefix written at SSLv3 as well
RsaSendWritesPrefix_FromSslv3(version) == version >= S2N_SSLv3

\* the send side writes an explicit length prefix
\* the prefix kept for the newest version only
RsaSendWritesPrefix_Tls12Only(version) == version >= S2N_TLS12

RsaSendWritesPrefix(version) == version > S2N_SSLv3

RsaSendLengthPrefix(c, env) ==
    IF c.done \/ ~RsaSendWritesPrefix(c.conn.actual_protocol_version) THEN c
    ELSE LET c1 == Called(c, "s2n_stuffer_write_uint16")
         IN  IF "s2n_stuffer_write_uint16" \in env.fail
             THEN GUARD(c1, "s2n_stuffer_write_uint16")
             ELSE [c1 EXCEPT !.conn.io =
                                 s2n_stuffer_write_uint16(@, c.encrypted_size)]

RsaSendReserve(c, env) ==
    IF c.done THEN c
    ELSE LET c1 == Called(c, "s2n_stuffer_raw_write")
         IN  IF "s2n_stuffer_raw_write" \in env.fail
             THEN S2N_ERROR(c1, S2N_ERR_NULL)
             ELSE [c1 EXCEPT !.length = c.encrypted_size]

RsaSendEncrypt(c, env) ==
    IF c.done THEN c
    ELSE LET r == s2n_rsa_encrypt(c.conn.server_rsa_public_key,
                                  c.conn.rsa_premaster_secret, c.length, env)
             c1 == [Called(c, "s2n_rsa_encrypt")
                      EXCEPT !.encrypted = r.out,
                             !.conn.io = s2n_stuffer_write_bytes(@, r.out)]
         IN  IF r.ret # 0 THEN GUARD(c1, "s2n_rsa_encrypt") ELSE c1

RsaSendFreeKey(c, env) ==
    IF c.done THEN c
    ELSE LET r == s2n_rsa_public_key_free(c.conn.server_rsa_public_key, env)
             c1 == Called(c, "s2n_rsa_public_key_free")
         IN  IF r.ret # 0 THEN GUARD(c1, "s2n_rsa_public_key_free")
             ELSE [c1 EXCEPT !.conn.server_rsa_public_key = r.key]

RsaSendMasterSecret(c, env) ==
    IF c.done THEN c
    ELSE LET r == s2n_prf_master_secret(c.conn, c.conn.rsa_premaster_secret, env)
             c1 == [Called(c, "s2n_prf_master_secret")
                      EXCEPT !.prf_arg = c.conn.rsa_premaster_secret]
         IN  IF r.ret # 0 THEN GUARD(c1, "s2n_prf_master_secret")
             ELSE [c1 EXCEPT !.conn = r.conn]

RsaSendErase(c, env) ==
    IF c.done THEN c
    ELSE LET r == s2n_blob_zero(c.conn.rsa_premaster_secret, env)
             c1 == [Called(c, "s2n_blob_zero")
                      EXCEPT !.conn.rsa_premaster_secret = r.bytes]
         IN  IF r.ret # 0 THEN GUARD(c1, "s2n_blob_zero") ELSE c1

RsaSendNextState(c) ==
    IF c.done THEN c
    ELSE [c EXCEPT !.conn.next_state = CLIENT_CHANGE_CIPHER_SPEC, !.done = TRUE]

s2n_rsa_client_key_send(conn, env) ==
    RsaSendNextState(
     RsaSendErase(
      RsaSendMasterSecret(
       RsaSendFreeKey(
        RsaSendEncrypt(
         RsaSendReserve(
          RsaSendLengthPrefix(
           RsaSendEncryptedSize(
            RsaSendBuildSecret(Entered(conn, "s2n_rsa_client_key_send"), env)), env), env), env), env), env), env))

\* ------------------------------------------------------------------------
\* Dispatchers
\* ------------------------------------------------------------------------
\* every algorithm other than RSA handed to the DHE path
s2n_client_key_recv_ElseDhe(conn, env) ==
    IF conn.key_exchange_alg = S2N_RSA THEN s2n_rsa_client_key_recv(conn, env)
    ELSE s2n_dhe_client_key_recv(conn, env)

s2n_client_key_recv(conn, env) ==
    IF conn.key_exchange_alg = S2N_RSA THEN s2n_rsa_client_key_recv(conn, env)
    ELSE IF conn.key_exchange_alg = S2N_DHE THEN s2n_dhe_client_key_recv(conn, env)
    ELSE S2N_ERROR(Enter(conn), S2N_ERR_INVALID_KEY_EXCHANGE_ALGORITHM)

s2n_client_key_send(conn, env) ==
    IF conn.key_exchange_alg = S2N_RSA THEN s2n_rsa_client_key_send(conn, env)
    ELSE IF conn.key_exchange_alg = S2N_DHE THEN s2n_dhe_client_key_send(conn, env)
    ELSE S2N_ERROR(Enter(conn), S2N_ERR_INVALID_KEY_EXCHANGE_ALGORITHM)

\* ------------------------------------------------------------------------
\* Connections
\* ------------------------------------------------------------------------
\* size in bytes of the modulus of the server's RSA key
RsaModulusLen == 64
\* ephemeral DH group and the server's private exponent
DhPrime == 1019
DhGenerator == 7
DhServerPrivate == 5

ProtocolVersions == { S2N_SSLv3, S2N_TLS10, S2N_TLS12 }
AdvertisedVersions == { S2N_TLS10, S2N_TLS12 }

ServerPrivateKey == [id |-> 1, size |-> RsaModulusLen]

PeerKey(id, size) == [id |-> id, size |-> size, live |-> TRUE, frees |-> 0]

\* negotiated algorithm and the public key the client took from the
\* certificate: the server's key, another key, a key too large for a
\* 16-bit length, or a key that holds no RSA object (its size is an error)
Negotiated ==
    { [alg |-> S2N_RSA, pub |-> PeerKey(1, RsaModulusLen)],
      [alg |-> S2N_RSA, pub |-> PeerKey(2, RsaModulusLen)],
      [alg |-> S2N_RSA, pub |-> PeerKey(1, UINT16_MAX + 1)],
      [alg |-> S2N_RSA, pub |-> [PeerKey(1, RsaModulusLen) EXCEPT !.live = FALSE]],
      [alg |-> S2N_DHE, pub |-> PeerKey(1, RsaModulusLen)],
      [alg |-> S2N_OTHER_ALG, pub |-> PeerKey(1, RsaModulusLen)] }

ServerDhParams ==
    [p |-> DhPrime, g |-> DhGenerator, priv |-> DhServerPrivate,
     pub |-> ModExp(DhGenerator, DhServerPrivate, DhPrime),
     live |-> TRUE, frees |-> 0]

\* the client holds the group and the server's public value only
ClientDhParams == [ServerDhParams EXCEPT !.priv = 0]

Connection(version, advertised, alg, pub, dh, failed) ==
    [actual_protocol_version |-> version,
     client_protocol_version |-> advertised,
     key_exchange_alg |-> alg,
     io |-> Stuffer(<< >>),
     rsa_premaster_secret |-> Zeros(S2N_TLS_SECRET_LEN),
     rsa_failed |-> failed,
     private_key |-> ServerPrivateKey,
     server_rsa_public_key |-> pub,
     server_dh_params |-> dh,
     master_secret |-> << >>,
     next_state |-> AWAITING_CLIENT_KEY_EXCHANGE]

\* ------------------------------------------------------------------------
\* Environment of one call and message bodies that reach the server
\* ------------------------------------------------------------------------
\* the status-returning collaborators each routine calls
SendFailPoints(alg) ==
    IF alg = S2N_RSA
    THEN { "s2n_get_random_data", "s2n_stuffer_write_uint16",
           "s2n_stuffer_raw_write", "s2n_rsa_encrypt",
           "s2n_rsa_public_key_free", "s2n_prf_master_secret", "s2n_blob_zero" }
    ELSE IF alg = S2N_DHE
    THEN { "s2n_dh_compute_shared_secret", "s2n_prf_master_secret",
           "s2n_blob_zero", "s2n_free", "s2n_dh_params_free" }
    ELSE {}

RecvFailPoints(alg) ==
    IF alg = S2N_RSA
    THEN { "s2n_get_random_data", "s2n_prf_master_secret", "s2n_blob_zero" }
    ELSE IF alg = S2N_DHE
    THEN { "s2n_dh_compute_shared_secret", "s2n_prf_master_secret",
           "s2n_blob_zero", "s2n_free", "s2n_dh_params_free" }
    ELSE {}

\* a failing decrypt may or may not leave bytes in its output buffer
Scribbles(alg) == IF alg = S2N_RSA THEN BOOLEAN ELSE { FALSE }

\* a routine returns at the first failing collaborator, so one failing
\* collaborator per call covers every combination of them
Envs(points, scribbles) ==
    { [fail |-> f, seed |-> sd, scribble |-> sc] :
        f \in { {} } \cup { {x} : x \in points },
        sd \in 1..MaxSeed, sc \in scribbles }

\* a pre-master secret encrypted under the server's public key by anyone
ForgedCipher(version) ==
    RsaCipher(ServerPrivateKey.id, ServerPrivateKey.size,
              WireVersion(version) \o RandomBytes(9, S2N_TLS_SECRET_LEN - 2))

Trailing(n) == [i \in 1..n |-> 171]

InjectedBodies ==
    { << >>, << 1 >> }
    \cup { ForgedCipher(v) \o Trailing(t) :
             v \in AdvertisedVersions, t \in 0..MaxTrailing }
    \cup { Uint16BE(n) \o ForgedCipher(v) \o Trailing(t) :
             n \in { RsaModulusLen, RsaModulusLen + MaxTrailing + 1 },
             v \in AdvertisedVersions, t \in 0..MaxTrailing }
    \cup { Uint16BE(Len(y)) \o y \o Trailing(t) :
             y \in { IntToBytes(343), << 0 >> }, t \in 0..MaxTrailing }
    \cup { Uint16BE(3) \o IntToBytes(343) }

\* ------------------------------------------------------------------------
\* State: the two connections and a record of the last call on each
\* ------------------------------------------------------------------------
\* twin is a second server session that starts in the state of server; it is
\* run only to compare two receive calls from the same session state
VARIABLES client, server, lastSend, lastRecv, twin, lastTwin

vars == << client, server, lastSend, lastRecv, twin, lastTwin >>

\* what a call leaves behind for inspection: its status, its locals, the
\* order of its collaborator calls, and the fields it found on entry
CallRecord(fn, pre, c, src) ==
    [fn |-> fn, src |-> src, ret |-> c.ret, err |-> c.err, calls |-> c.calls,
     length |-> c.length, encrypted_size |-> c.encrypted_size,
     encrypted |-> c.encrypted, prf_arg |-> c.prf_arg,
     shared_key |-> c.shared_key, shared_key_live |-> c.shared_key_live,
     populated |-> c.populated,
     path |-> c.path,
     unchanged |-> (c.conn = pre),
     body |-> IF fn = "send" THEN c.conn.io.data ELSE pre.io.data,
     pre_rsa_failed |-> pre.rsa_failed,
     pre_secret |-> pre.rsa_premaster_secret,
     pre_next_state |-> pre.next_state,
     pre_master_secret |-> pre.master_secret,
     pre_key |-> pre.server_rsa_public_key,
     pre_dh |-> pre.server_dh_params]

NoCall(conn) == CallRecord("none", conn, Enter(conn), "none")

\* rsa_failed is whatever an earlier handshake left in the connection
Init ==
    \E n \in Negotiated, failed \in BOOLEAN,
       cv \in ProtocolVersions, ca \in AdvertisedVersions,
       sv \in ProtocolVersions, sa \in AdvertisedVersions :
        /\ cv <= ca
        /\ sv <= sa
        /\ failed => n.alg = S2N_RSA
        /\ client = Connection(cv, ca, n.alg, n.pub, ClientDhParams, FALSE)
        /\ server = Connection(sv, sa, n.alg, n.pub, ServerDhParams, failed)
        /\ twin = server
        /\ lastSend = NoCall(client)
        /\ lastRecv = NoCall(server)
        /\ lastTwin = NoCall(server)

\* the client writes its ClientKeyExchange into the empty handshake.io
ClientKeySend ==
    /\ lastSend.fn = "none"
    /\ lastRecv.fn = "none"
    /\ \E env \in Envs(SendFailPoints(client.key_exchange_alg), { FALSE }) :
        LET c == s2n_client_key_send(client, env)
        IN  /\ client' = c.conn
            /\ lastSend' = CallRecord("send", client, c, "client")
    /\ UNCHANGED << server, lastRecv, twin, lastTwin >>

\* the server parses the message body in handshake.io: the one the client
\* sent, or, when the client sent none, one from anybody else
ClientKeyRecv ==
    /\ lastRecv.fn = "none"
    /\ lastSend.fn = "send" => lastSend.ret = 0
    /\ \E env \in Envs(RecvFailPoints(server.key_exchange_alg),
                     Scribbles(server.key_exchange_alg)) :
       \E body \in IF lastSend.fn = "send" THEN { lastSend.body } ELSE InjectedBodies :
        LET pre == [server EXCEPT !.io = Stuffer(body)]
            c == s2n_client_key_recv(pre, env)
        IN  /\ server' = c.conn
            /\ lastRecv' = CallRecord("recv", pre, c,
                              IF lastSend.fn = "send" THEN "client" ELSE "inject")
    /\ UNCHANGED << client, lastSend, twin, lastTwin >>

Next == ClientKeySend \/ ClientKeyRecv

Spec == Init /\ [][Next]_vars

\* ------------------------------------------------------------------------
\* Two receive calls from one session state, under one environment: a
\* message that decrypts to the advertised version, and a message of the
\* same length that fails to decrypt or carries another version
\* ------------------------------------------------------------------------
RsaFrame(version, ciphertext) ==
    IF version = S2N_SSLv3 THEN ciphertext
    ELSE Uint16BE(Len(ciphertext)) \o ciphertext

GenuineBodies(conn) ==
    { RsaFrame(conn.actual_protocol_version,
               ForgedCipher(conn.client_protocol_version)) }

FailingBodies(conn) ==
    { RsaFrame(conn.actual_protocol_version, ForgedCipher(v)) :
        v \in AdvertisedVersions \ { conn.client_protocol_version } }
    \cup { RsaFrame(conn.actual_protocol_version,
                    [i \in 1..RsaModulusLen |-> 99]) }

PairRecv ==
    /\ lastRecv.fn = "none"
    /\ server.key_exchange_alg = S2N_RSA
    /\ \E env \in Envs(RecvFailPoints(server.key_exchange_alg),
                     Scribbles(server.key_exchange_alg)) :
       \E g \in GenuineBodies(server), f \in FailingBodies(server) :
        LET pre1 == [server EXCEPT !.io = Stuffer(g)]
            pre2 == [twin EXCEPT !.io = Stuffer(f)]
            c1 == s2n_client_key_recv(pre1, env)
            c2 == s2n_client_key_recv(pre2, env)
        IN  /\ Len(g) = Len(f)
            /\ server' = c1.conn
            /\ twin' = c2.conn
            /\ lastRecv' = CallRecord("recv", pre1, c1, "genuine")
            /\ lastTwin' = CallRecord("recv", pre2, c2, "failing")
    /\ UNCHANGED << client, lastSend >>

NextPair == PairRecv

SpecPair == Init /\ [][NextPair]_vars

TypeOK ==
    /\ client.next_state \in { AWAITING_CLIENT_KEY_EXCHANGE, CLIENT_CHANGE_CIPHER_SPEC }
    /\ server.next_state \in { AWAITING_CLIENT_KEY_EXCHANGE, CLIENT_CHANGE_CIPHER_SPEC }
    /\ Len(client.rsa_premaster_secret) = S2N_TLS_SECRET_LEN
    /\ Len(server.rsa_premaster_secret) = S2N_TLS_SECRET_LEN

\* ------------------------------------------------------------------------
\* Vocabulary of the properties
\* ------------------------------------------------------------------------
Invoked(rec, callee) == \E i \in 1..Len(rec.calls) : rec.calls[i] = callee

TimesInvoked(rec, callee) ==
    Cardinality({ i \in 1..Len(rec.calls) : rec.calls[i] = callee })

IsRsa(conn) == conn.key_exchange_alg = S2N_RSA

IsDhe(conn) == conn.key_exchange_alg = S2N_DHE

\* the secret buffer of a routine as it is when the routine returns
SecretAtReturn(rec, conn) ==
    IF IsDhe(conn) THEN rec.shared_key ELSE conn.rsa_premaster_secret

\* the secret buffer of the call was populated, and the call returned by
\* success, by SizeMismatch, or by a failed write, encryption, key release
\* or derivation: not by a failure of the random generator or of the zeroing
\* primitive itself
ExitAfterSecret(rec, conn) ==
    /\ rec.fn # "none"
    /\ IsRsa(conn) \/ IsDhe(conn)
    /\ rec.populated
    /\ rec.err # "s2n_blob_zero"
    /\ rec.err # "s2n_get_random_data"

\* C1: on every exit taken after the pre-master or shared-secret buffer has
\* been populated (success, the RSA substitution branch, an error of the
\* master-secret derivation or of a later step, the RSA send SizeMismatch,
\* write and encrypt error exits) the buffer is all-zero at return.
C1_SecretZeroOnEveryExit ==
    /\ ExitAfterSecret(lastSend, client)
         => IsAllZero(SecretAtReturn(lastSend, client))
    /\ ExitAfterSecret(lastRecv, server)
         => IsAllZero(SecretAtReturn(lastRecv, server))

\* C2: in both DHE paths, once the shared secret has been computed the
\* ephemeral DH parameters are freed exactly once before the routine
\* returns, whether derivation, zeroing and the release of the shared-secret
\* buffer succeed or fail.
DhFreedOnce(rec, conn) ==
    (/\ rec.fn # "none"
     /\ IsDhe(conn)
     /\ rec.populated
     /\ rec.err # "s2n_dh_params_free")
    => /\ TimesInvoked(rec, "s2n_dh_params_free") = 1
       /\ conn.server_dh_params.frees = rec.pre_dh.frees + 1
       /\ ~conn.server_dh_params.live

C2_DhParamsFreedExactlyOnce ==
    DhFreedOnce(lastSend, client) /\ DhFreedOnce(lastRecv, server)

\* C3: on every return of the RSA send path once the secret is built
\* (SizeMismatch, a failed prefix or region write, a failed encryption, a
\* failed derivation, success) the peer's RSA public key has been released
\* exactly once.
C3_RsaPublicKeyFreedOnEveryReturn ==
    (/\ lastSend.fn = "send"
     /\ IsRsa(client)
     /\ lastSend.err # "s2n_get_random_data"
     /\ lastSend.err # "s2n_rsa_public_key_free")
    => /\ TimesInvoked(lastSend, "s2n_rsa_public_key_free") = 1
       /\ client.server_rsa_public_key.frees = lastSend.pre_key.frees + 1
       /\ ~client.server_rsa_public_key.live

\* the body declares, in its 16-bit prefix, more ciphertext bytes than
\* follow the prefix
DeclaredLengthExceeds(version, body) ==
    /\ version # S2N_SSLv3
    /\ Len(body) >= 2
    /\ body[1] * 256 + body[2] > Len(body) - 2

RsaRecvOf(rec, conn) == rec.fn = "recv" /\ IsRsa(conn)

\* C4: in the RSA receive path a declared ciphertext length larger than the
\* bytes that remain fails with BadMessage before any secret processing:
\* no decrypt, no substitution, no derivation, and rsa_failed, the
\* pre-master buffer and next_state keep their values.
BadMessageNoProcessing(rec, conn) ==
    (RsaRecvOf(rec, conn)
       /\ DeclaredLengthExceeds(conn.actual_protocol_version, rec.body))
    => /\ rec.ret = -1
       /\ rec.err = S2N_ERR_BAD_MESSAGE
       /\ ~Invoked(rec, "s2n_rsa_decrypt")
       /\ ~Invoked(rec, "s2n_get_random_data")
       /\ ~Invoked(rec, "s2n_prf_master_secret")
       /\ conn.rsa_failed = rec.pre_rsa_failed
       /\ conn.rsa_premaster_secret = rec.pre_secret
       /\ conn.master_secret = rec.pre_master_secret
       /\ conn.next_state = rec.pre_next_state

C4_OversizedLengthIsBadMessage == BadMessageNoProcessing(lastRecv, server)

C4_Witness ==
    /\ RsaRecvOf(lastRecv, server)
    /\ DeclaredLengthExceeds(server.actual_protocol_version, lastRecv.body)
    /\ lastRecv.err = S2N_ERR_BAD_MESSAGE
    /\ lastRecv.pre_rsa_failed
    /\ server.rsa_failed

\* the kinds of buffer a call wrote: the secret buffer, the master secret,
\* the handshake state
WriteCategories(rec) ==
    (IF \/ Invoked(rec, "s2n_rsa_decrypt")
        \/ Invoked(rec, "s2n_get_random_data")
        \/ Invoked(rec, "s2n_blob_zero")
     THEN { "secret" } ELSE {})
    \cup (IF Invoked(rec, "s2n_prf_master_secret") /\ rec.err # "s2n_prf_master_secret"
          THEN { "master_secret" } ELSE {})
    \cup (IF rec.ret = 0 THEN { "next_state" } ELSE {})

\* C5: two runs of the RSA receive path from one session state, on messages
\* of one length, one decrypting to the advertised version and one failing
\* to decrypt or carrying another version, under one behaviour of the random
\* generator and the PRF, end alike: same return status, same next_state,
\* same categories of buffer writes.
C5_FailedDecryptIndistinguishable ==
    (lastRecv.fn = "recv" /\ lastTwin.fn = "recv")
    => /\ lastRecv.ret = lastTwin.ret
       /\ lastRecv.err = lastTwin.err
       /\ server.next_state = twin.next_state
       /\ WriteCategories(lastRecv) = WriteCategories(lastTwin)

\* what the decrypt primitive makes of the blob the call handed to it
DecryptOutcome(rec, conn) ==
    s2n_rsa_decrypt(conn.private_key, rec.encrypted,
                    Zeros(S2N_TLS_SECRET_LEN),
                    [fail |-> {}, seed |-> 1, scribble |-> FALSE])

\* decryption reported failure, or the plaintext does not start with the
\* advertised version (major = version / 10, minor = version % 10)
FailedOrStale(rec, conn) ==
    LET d == DecryptOutcome(rec, conn)
    IN  \/ d.ret # 0
        \/ d.out[1] # conn.client_protocol_version \div 10
        \/ d.out[2] # conn.client_protocol_version % 10

\* the advertised version followed by 46 bytes of generator output
IsSubstitute(secret, conn) ==
    /\ Len(secret) = S2N_TLS_SECRET_LEN
    /\ secret[1] = conn.client_protocol_version \div 10
    /\ secret[2] = conn.client_protocol_version % 10
    /\ \E sd \in 1..MaxSeed :
         SubSeq(secret, 3, S2N_TLS_SECRET_LEN)
           = SubSeq(RandomBytes(sd, S2N_TLS_SECRET_LEN), 3, S2N_TLS_SECRET_LEN)

CiphertextOf(version, body) ==
    IF version = S2N_SSLv3 THEN body ELSE Drop(body, 2)

ValidRsaMessage(conn, body) ==
    LET ct == CiphertextOf(conn.actual_protocol_version, body)
        d == s2n_rsa_decrypt(conn.private_key, ct, Zeros(S2N_TLS_SECRET_LEN),
                             [fail |-> {}, seed |-> 1, scribble |-> FALSE])
    IN  /\ conn.actual_protocol_version # S2N_SSLv3
             => /\ Len(body) >= 2
                /\ body[1] * 256 + body[2] = Len(body) - 2
        /\ d.ret = 0
        /\ Len(d.out) = S2N_TLS_SECRET_LEN
        /\ d.out[1] = conn.client_protocol_version \div 10
        /\ d.out[2] = conn.client_protocol_version % 10

PlaintextOf(conn, body) ==
    s2n_rsa_decrypt(conn.private_key,
                    CiphertextOf(conn.actual_protocol_version, body),
                    Zeros(S2N_TLS_SECRET_LEN),
                    [fail |-> {}, seed |-> 1, scribble |-> FALSE]).out

\* C7: for a valid RSA ClientKeyExchange, whatever rsa_failed was before,
\* the receive path leaves rsa_failed false, substitutes nothing and
\* derives the master secret from exactly the decrypted plaintext.
C7_ValidMessageDerivesFromPlaintext ==
    (RsaRecvOf(lastRecv, server) /\ ValidRsaMessage(server, lastRecv.body))
    => /\ ~server.rsa_failed
       /\ ~Invoked(lastRecv, "s2n_get_random_data")
       /\ TimesInvoked(lastRecv, "s2n_prf_master_secret") = 1
       /\ lastRecv.prf_arg = PlaintextOf(server, lastRecv.body)
       /\ lastRecv.err # "s2n_prf_master_secret"
            => server.master_secret
                 = MasterSecretOf(PlaintextOf(server, lastRecv.body))

C7_Witness ==
    /\ RsaRecvOf(lastRecv, server)
    /\ ValidRsaMessage(server, lastRecv.body)
    /\ lastRecv.pre_rsa_failed
    /\ ~server.rsa_failed
    /\ lastRecv.ret = 0
    /\ server.master_secret = MasterSecretOf(PlaintextOf(server, lastRecv.body))

\* the server parsed the body a successful RSA send wrote
RsaSentAndParsed ==
    /\ lastSend.fn = "send"
    /\ lastSend.ret = 0
    /\ IsRsa(client)
    /\ RsaRecvOf(lastRecv, server)
    /\ lastRecv.src = "client"
    /\ lastRecv.body = lastSend.body

\* same protocol version, same advertised version, matching key pair
MatchingEndpoints ==
    /\ client.actual_protocol_version = server.actual_protocol_version
    /\ client.client_protocol_version = server.client_protocol_version
    /\ lastSend.pre_key.id = server.private_key.id

\* C8: round trip at SSLv3 and at every later version: the body the RSA send
\* path wrote, parsed by the RSA receive path at the same protocol version
\* and advertised version with the matching key pair, gives the server the
\* master secret the client derived from its pre-master secret, with
\* rsa_failed false.
C8_RsaRoundTrip ==
    (RsaSentAndParsed /\ MatchingEndpoints)
    => /\ ~server.rsa_failed
       /\ ~Invoked(lastRecv, "s2n_get_random_data")
       /\ Invoked(lastRecv, "s2n_prf_master_secret")
       /\ lastRecv.prf_arg = lastSend.prf_arg
       /\ client.master_secret = MasterSecretOf(lastSend.prf_arg)
       /\ lastRecv.ret = 0 => server.master_secret = client.master_secret

C8_Witness ==
    /\ RsaSentAndParsed
    /\ MatchingEndpoints
    /\ server.actual_protocol_version = S2N_SSLv3
    /\ lastRecv.ret = 0
    /\ ~server.rsa_failed
    /\ server.master_secret = client.master_secret
    /\ server.master_secret # << >>

\* the client encoded at a later version, the server parses under the
\* SSLv3 rule
MixedEncoding ==
    /\ RsaSentAndParsed
    /\ client.actual_protocol_version > S2N_SSLv3
    /\ server.actual_protocol_version = S2N_SSLv3

\* C9 as stated: a body written at a later (length-prefixed) version and
\* parsed under the SSLv3 rule is rejected with BadMessage and not processed.
C9_Original ==
    MixedEncoding
    => /\ lastRecv.ret = -1
       /\ lastRecv.err = S2N_ERR_BAD_MESSAGE

\* C9 (amended): such a body is not rejected as BadMessage; the SSLv3 rule
\* takes the whole body, prefix included, as the ciphertext, so the length
\* check passes, decryption fails, rsa_failed is set and the random secret
\* is substituted: the secret of the sender is never derived from.
C9_MixedEncodingSubstituted ==
    MixedEncoding
    => /\ lastRecv.err # S2N_ERR_BAD_MESSAGE
       /\ lastRecv.length = Len(lastSend.body)
       /\ lastRecv.encrypted = lastSend.body
       /\ Len(lastRecv.encrypted) = lastSend.encrypted_size + 2
       /\ Invoked(lastRecv, "s2n_rsa_decrypt")
       /\ server.rsa_failed
       /\ Invoked(lastRecv, "s2n_get_random_data")
       /\ Invoked(lastRecv, "s2n_prf_master_secret")
            => /\ lastRecv.prf_arg # lastSend.prf_arg
               /\ IsSubstitute(lastRecv.prf_arg, server)

C9_Witness ==
    /\ MixedEncoding
    /\ lastSend.pre_key.id = server.private_key.id
    /\ client.client_protocol_version = server.client_protocol_version
    /\ server.rsa_failed
    /\ lastRecv.ret = 0
    /\ server.next_state = CLIENT_CHANGE_CIPHER_SPEC

\* a call that returned without error left next_state at
\* CLIENT_CHANGE_CIPHER_SPEC, and a call never leaves any other new value
AdvancesOnSuccess(rec, conn) ==
    rec.fn # "none"
    => /\ rec.ret = 0 => conn.next_state = CLIENT_CHANGE_CIPHER_SPEC
       /\ conn.next_state # rec.pre_next_state
            => conn.next_state = CLIENT_CHANGE_CIPHER_SPEC

\* C10: for both algorithms and both roles every non-erroring completion
\* (the RSA substitution branch included) sets next_state to
\* CLIENT_CHANGE_CIPHER_SPEC, the only state the routines ever set.
C10_OnlyTransition ==
    /\ AdvancesOnSuccess(lastSend, client)
    /\ AdvancesOnSuccess(lastRecv, server)

C10_Witness ==
    /\ RsaRecvOf(lastRecv, server)
    /\ server.rsa_failed
    /\ Invoked(lastRecv, "s2n_get_random_data")
    /\ lastRecv.ret = 0
    /\ lastRecv.pre_next_state = AWAITING_CLIENT_KEY_EXCHANGE
    /\ server.next_state = CLIENT_CHANGE_CIPHER_SPEC

\* the dispatcher entered the routine of the negotiated algorithm, or
\* failed before entering any and left the connection as it was
Dispatched(rec, conn, rsaPath, dhePath) ==
    rec.fn # "none"
    => /\ IsRsa(conn) => rec.path = rsaPath
       /\ IsDhe(conn) => rec.path = dhePath
       /\ (~IsRsa(conn) /\ ~IsDhe(conn))
            => /\ rec.ret = -1
               /\ rec.err = S2N_ERR_INVALID_KEY_EXCHANGE_ALGORITHM
               /\ rec.path = "none"
               /\ rec.calls = << >>
               /\ rec.unchanged

\* C11: both dispatchers call the RSA path when the negotiated algorithm is
\* RSA and the DHE path when it is DHE; for any other algorithm they fail
\* with InvalidKeyExchangeAlgorithm, enter neither path and change no
\* session state.
C11_DispatchByAlgorithm ==
    /\ Dispatched(lastSend, client,
                  "s2n_rsa_client_key_send", "s2n_dhe_client_key_send")
    /\ Dispatched(lastRecv, server,
                  "s2n_rsa_client_key_recv", "s2n_dhe_client_key_recv")

C11_Witness ==
    /\ lastRecv.fn = "recv"
    /\ server.key_exchange_alg = S2N_OTHER_ALG
    /\ lastRecv.body # << >>
    /\ lastRecv.err = S2N_ERR_INVALID_KEY_EXCHANGE_ALGORITHM
    /\ server.io = Stuffer(lastRecv.body)
    /\ server.next_state = AWAITING_CLIENT_KEY_EXCHANGE

\* the collaborators of the RSA receive path whose status is GUARD-ed
RsaRecvGuarded ==
    { "s2n_get_random_data", "s2n_prf_master_secret", "s2n_blob_zero" }

RsaSendSized ==
    /\ lastSend.fn = "send"
    /\ IsRsa(client)
    /\ Invoked(lastSend, "s2n_rsa_public_encrypted_size")

\* C13: the RSA send path fails with SizeMismatch exactly when the computed
\* ciphertext size is negative or greater than 65535; then nothing has been
\* written to the outgoing message and next_state is unchanged; every size
\* in 0..65535 passes the check.
C13_SizeMismatchExactly ==
    RsaSendSized
    => /\ lastSend.encrypted_size
            = s2n_rsa_public_encrypted_size(lastSend.pre_key)
       /\ lastSend.err = S2N_ERR_SIZE_MISMATCH
            <=> (lastSend.encrypted_size < 0 \/ lastSend.encrypted_size > 65535)
       /\ lastSend.err = S2N_ERR_SIZE_MISMATCH
            => /\ lastSend.ret = -1
               /\ lastSend.body = << >>
               /\ ~Invoked(lastSend, "s2n_stuffer_write_uint16")
               /\ ~Invoked(lastSend, "s2n_stuffer_raw_write")
               /\ ~Invoked(lastSend, "s2n_rsa_encrypt")
               /\ client.next_state = lastSend.pre_next_state
               /\ \A n \in 0..65535 : ~RsaSendSizeMismatch(n)

C13_Witness ==
    /\ RsaSendSized
    /\ lastSend.encrypted_size < 0
    /\ lastSend.err = S2N_ERR_SIZE_MISMATCH
    /\ lastSend.body = << >>
    /\ client.next_state = AWAITING_CLIENT_KEY_EXCHANGE

\* the RSA send path got as far as reserving room for the ciphertext
RsaSendFramed ==
    /\ lastSend.fn = "send"
    /\ IsRsa(client)
    /\ Invoked(lastSend, "s2n_stuffer_raw_write")
    /\ lastSend.err # "s2n_stuffer_write_uint16"

\* C14: at every negotiated protocol version the RSA send path writes a
\* 16-bit big-endian length prefix equal to the ciphertext size exactly when
\* the RSA receive path at that version reads an explicit prefix, and writes
\* no prefix exactly when the receive path takes every remaining byte.
C14_SendFramingMatchesRecv ==
    /\ \A v \in S2N_SSLv3..S2N_TLS12 :
          RsaSendWritesPrefix(v) <=> RsaRecvReadsPrefix(v)
    /\ RsaSendFramed
       => LET reads == RsaRecvReadsPrefix(client.actual_protocol_version)
          IN  /\ Invoked(lastSend, "s2n_stuffer_write_uint16") <=> reads
              /\ reads => /\ Len(lastSend.body) >= 2
                          /\ Take(lastSend.body, 2)
                               = << lastSend.encrypted_size \div 256,
                                    lastSend.encrypted_size % 256 >>
              /\ lastSend.err # S2N_ERR_NULL
                   => Len(lastSend.body)
                        = lastSend.encrypted_size + (IF reads THEN 2 ELSE 0)
    /\ (RsaRecvOf(lastRecv, server) /\ lastRecv.err # "s2n_stuffer_read_uint16")
       => LET writes == RsaSendWritesPrefix(server.actual_protocol_version)
          IN  /\ Invoked(lastRecv, "s2n_stuffer_read_uint16") <=> writes
              /\ writes => lastRecv.length
                             = lastRecv.body[1] * 256 + lastRecv.body[2]
              /\ ~writes => lastRecv.length = Len(lastRecv.body)

C14_Witness ==
    /\ RsaSendFramed
    /\ lastSend.ret = 0
    /\ client.actual_protocol_version = S2N_SSLv3
    /\ Len(lastSend.body) = lastSend.encrypted_size
    /\ RsaRecvOf(lastRecv, server)
    /\ lastRecv.src = "client"
    /\ server.actual_protocol_version = S2N_SSLv3
    /\ ~Invoked(lastRecv, "s2n_stuffer_read_uint16")
    /\ lastRecv.length = lastSend.encrypted_size

\* bytes of the body in front of the ciphertext
PrefixLen(version) == IF version = S2N_SSLv3 THEN 0 ELSE 2

\* C15: in the RSA receive path the ciphertext handed to the decrypt
\* primitive is exactly the `length` bytes after the prefix, also when more
\* bytes follow, and exactly `length` bytes are consumed from the cursor.
C15_CiphertextIsDeclaredLength ==
    (RsaRecvOf(lastRecv, server) /\ Invoked(lastRecv, "s2n_rsa_decrypt"))
    => LET off == PrefixLen(server.actual_protocol_version)
       IN  /\ Len(lastRecv.encrypted) = lastRecv.length
           /\ lastRecv.encrypted
                = SubSeq(lastRecv.body, off + 1, off + lastRecv.length)
           /\ server.io.rd = off + lastRecv.length

\* positions of a callee in the call sequence of an invocation
CallsAt(rec, callee) == { i \in 1..Len(rec.calls) : rec.calls[i] = callee }

\* every release is after a use and no use is after a release
ReleasedAfterLastUse(rec, release, use) ==
    \A i \in CallsAt(rec, release) :
        /\ \E j \in CallsAt(rec, use) : j < i
        /\ \A j \in CallsAt(rec, use) : j < i

SecretLifecycle(rec) ==
    /\ TimesInvoked(rec, "s2n_prf_master_secret") <= 1
    /\ (rec.fn # "none" /\ rec.ret = 0)
         => TimesInvoked(rec, "s2n_prf_master_secret") = 1
    /\ ReleasedAfterLastUse(rec, "s2n_blob_zero", "s2n_prf_master_secret")
    /\ ReleasedAfterLastUse(rec, "s2n_free", "s2n_prf_master_secret")
    /\ Invoked(rec, "s2n_prf_master_secret") => ~IsAllZero(rec.prf_arg)
    /\ ReleasedAfterLastUse(rec, "s2n_rsa_public_key_free", "s2n_rsa_encrypt")
    /\ ReleasedAfterLastUse(rec, "s2n_dh_params_free",
           IF rec.fn = "send" THEN "s2n_dh_compute_shared_secret_as_client"
           ELSE "s2n_dh_compute_shared_secret_as_server")

\* C16: in every invocation of the four paths the secret is handed to the
\* master-secret derivation at most once, and exactly once when the call
\* returns success; the zeroing of the secret never precedes the derivation,
\* and the release of the RSA public key or of the DH parameters never
\* precedes the encryption or the shared-secret computation.
C16_SecretLifecycleOrder ==
    /\ SecretLifecycle(lastSend)
    /\ SecretLifecycle(lastRecv)

C16_Witness ==
    /\ lastSend.fn = "send"
    /\ IsDhe(client)
    /\ lastSend.ret = 0
    /\ Invoked(lastSend, "s2n_blob_zero")
    /\ Invoked(lastSend, "s2n_dh_params_free")
    /\ lastRecv.fn = "recv"
    /\ lastRecv.ret = 0
    /\ TimesInvoked(lastRecv, "s2n_prf_master_secret") = 1

DheRecvOf(rec, conn) == rec.fn = "recv" /\ IsDhe(conn)

\* fewer than two bytes for the length
DheShortPrefix(body) == Len(body) < 2

\* fewer bytes after the length than it declares
DheShortValue(body) ==
    /\ Len(body) >= 2
    /\ body[1] * 256 + body[2] > Len(body) - 2

\* C17: in the DHE receive path a message shorter than its two length bytes,
\* or with fewer bytes than the length declares, fails with a
\* null/missing-data error, and the shared-secret computation, the
\* derivation, the release of the DH parameters and the state transition do
\* not occur.
C17_DheShortReadFails ==
    (DheRecvOf(lastRecv, server)
       /\ (DheShortPrefix(lastRecv.body) \/ DheShortValue(lastRecv.body)))
    => /\ lastRecv.ret = -1
       /\ DheShortPrefix(lastRecv.body)
            => lastRecv.err = "s2n_stuffer_read_uint16"
       /\ DheShortValue(lastRecv.body) => lastRecv.err = S2N_ERR_NULL
       /\ ~Invoked(lastRecv, "s2n_dh_compute_shared_secret_as_server")
       /\ ~Invoked(lastRecv, "s2n_prf_master_secret")
       /\ ~Invoked(lastRecv, "s2n_blob_zero")
       /\ ~Invoked(lastRecv, "s2n_free")
       /\ ~Invoked(lastRecv, "s2n_dh_params_free")
       /\ server.server_dh_params = lastRecv.pre_dh
       /\ server.master_secret = lastRecv.pre_master_secret
       /\ server.next_state = lastRecv.pre_next_state

C17_Witness ==
    /\ DheRecvOf(lastRecv, server)
    /\ DheShortValue(lastRecv.body)
    /\ lastRecv.err = S2N_ERR_NULL
    /\ lastRecv.calls = << "s2n_stuffer_read_uint16", "s2n_stuffer_raw_read" >>
    /\ server.next_state = AWAITING_CLIENT_KEY_EXCHANGE

\* the public value a DHE body carries: the declared bytes after the prefix
YcOf(body) == SubSeq(body, 3, 2 + (body[1] * 256 + body[2]))

ValidDheMessage(conn, body) ==
    /\ Len(body) >= 2
    /\ body[1] * 256 + body[2] <= Len(body) - 2
    /\ conn.server_dh_params.live
    /\ DhValidPublic(conn.server_dh_params.p, BytesToInt(YcOf(body)))

\* reference computation: Yc ^ priv mod p, big-endian
ReferenceDh(params, Yc) ==
    IntToBytes(ModExp(BytesToInt(Yc), params.priv, params.p))

DheSentAndParsed ==
    /\ lastSend.fn = "send"
    /\ lastSend.ret = 0
    /\ IsDhe(client)
    /\ DheRecvOf(lastRecv, server)
    /\ lastRecv.src = "client"
    /\ lastRecv.body = lastSend.body
    /\ lastSend.pre_dh.p = lastRecv.pre_dh.p
    /\ lastSend.pre_dh.g = lastRecv.pre_dh.g
    /\ lastSend.pre_dh.pub = lastRecv.pre_dh.pub

\* C18: for every valid DHE message the secret the server hands to the
\* derivation is the value a reference DH computation gives for the session's
\* parameters and the `length` bytes of Yc after the prefix; a client send
\* followed by the server's receive of that message over the same parameters
\* derives the same master secret on both sides.
C18_DheSharedSecret ==
    /\ (DheRecvOf(lastRecv, server)
          /\ ValidDheMessage([server_dh_params |-> lastRecv.pre_dh], lastRecv.body)
          /\ Invoked(lastRecv, "s2n_dh_compute_shared_secret_as_server"))
       => /\ lastRecv.encrypted = YcOf(lastRecv.body)
          /\ Invoked(lastRecv, "s2n_prf_master_secret")
               => /\ lastRecv.prf_arg
                       = ReferenceDh(lastRecv.pre_dh, YcOf(lastRecv.body))
                  /\ lastRecv.err # "s2n_prf_master_secret"
                       => server.master_secret = MasterSecretOf(lastRecv.prf_arg)
          /\ lastRecv.ret = 0 => Invoked(lastRecv, "s2n_prf_master_secret")
    /\ DheSentAndParsed
       => /\ ValidDheMessage([server_dh_params |-> lastRecv.pre_dh], lastRecv.body)
          /\ Invoked(lastRecv, "s2n_prf_master_secret")
               => lastRecv.prf_arg = lastSend.prf_arg
          /\ lastRecv.ret = 0 => server.master_secret = client.master_secret

C18_Witness ==
    /\ DheSentAndParsed
    /\ lastRecv.ret = 0
    /\ lastRecv.prf_arg = ReferenceDh(lastRecv.pre_dh, YcOf(lastRecv.body))
    /\ server.master_secret = client.master_secret
    /\ server.master_secret # << >>

ErrorLeavesState(rec, conn) ==
    rec.fn # "none"
    => /\ rec.ret # 0 => conn.next_state = rec.pre_next_state
       /\ conn.next_state # rec.pre_next_state
            => /\ rec.ret = 0
               /\ rec.err = S2N_ERR_OK
               /\ rec.calls # << >>
               /\ rec.calls[Len(rec.calls)]
                    \in { "s2n_blob_zero", "s2n_dh_params_free" }

\* C19: whenever a receive or send entry point returns an error, next_state
\* keeps the value it had before the call; CLIENT_CHANGE_CIPHER_SPEC is
\* written only as the last step of a path on which every step succeeded.
C19_ErrorLeavesNextState ==
    /\ ErrorLeavesState(lastSend, client)
    /\ ErrorLeavesState(lastRecv, server)

C19_Witness ==
    /\ lastRecv.fn = "recv"
    /\ IsDhe(server)
    /\ lastRecv.ret = -1
    /\ lastRecv.err = "s2n_dh_params_free"
    /\ Invoked(lastRecv, "s2n_prf_master_secret")
    /\ lastRecv.pre_next_state = AWAITING_CLIENT_KEY_EXCHANGE
    /\ server.next_state = AWAITING_CLIENT_KEY_EXCHANGE

\* C20: in every run of the RSA receive path that reaches the derivation,
\* genuine or substituted, the secret handed to it is 48 bytes and its first
\* two bytes are the client's advertised version (version/10, version%10),
\* whatever the ciphertext length.
C20_DerivedSecretCarriesVersion ==
    (RsaRecvOf(lastRecv, server) /\ Invoked(lastRecv, "s2n_prf_master_secret"))
    => /\ Len(lastRecv.prf_arg) = 48
       /\ lastRecv.prf_arg[1] = server.client_protocol_version \div 10
       /\ lastRecv.prf_arg[2] = server.client_protocol_version % 10

C20_Witness ==
    /\ RsaRecvOf(lastRecv, server)
    /\ Invoked(lastRecv, "s2n_get_random_data")
    /\ Invoked(lastRecv, "s2n_prf_master_secret")
    /\ Len(lastRecv.encrypted) # server.private_key.size
    /\ Len(lastRecv.prf_arg) = 48
    /\ lastRecv.prf_arg[1] = 3
    /\ lastRecv.prf_arg[2] = 3
====
